---- MODULE Spec2Model ----
(***************************************************************************)
(* Model of starcraft_bronze.py: the Zerg economy State, the enumeration   *)
(* of production choices, the transition function next_state with its      *)
(* mineral carry-over, and the priority-queue search shortest_path_to_goal.*)
(*                                                                         *)
(* Two specifications are defined over the same variables.                 *)
(*   Spec      - one run of shortest_path_to_goal(start): the frontier pq, *)
(*               the cache of settled states and the lines it prints.      *)
(*   GraphSpec - the state graph itself: cur follows any sequence of       *)
(*               offered production pairs from State().                    *)
(***************************************************************************)
EXTENDS Integers, Sequences, FiniteSets, Bags, TLC

VARIABLES
    start,    \* the argument of shortest_path_to_goal
    pq,       \* the PriorityQueue: a bag of entries [time, carry, state]
    cache,    \* the module-level set of settled states
    pc,       \* "loop" while the while-loop runs, "done" after it is left
    output,   \* the lines printed so far, as a bag: their order is left out
    pushed,   \* history: every entry ever handed to pq.put
    discarded,\* history: every entry popped and skipped by the cache test
    cur,      \* GraphSpec: the State a production sequence has reached
    call,     \* the number of the call of shortest_path_to_goal that runs
    prevOutput, \* the lines the previous call printed
    pruned,   \* history: the bounds have kept an entry off the frontier
    poolLedger  \* GraphSpec history: what the sequence spent on the pool

vars == <<start, pq, cache, pc, output, pushed, discarded, cur,
          call, prevOutput, pruned, poolLedger>>

----------------------------------------------------------------------------
(* Program constants *)

MAX_DRONES == 50
MAX_OVERLORDS == 25
MAX_HATCHERIES == 5

FOOD_PER_OVERLORD == 8
MINERALS_PER_DRONE == 8
GOAL_ZERGLINGS == 150

COST_HATCHERY == 450
COST_DRONE == 50
COST_OVERLORD == 100
COST_ZERG == 50
COST_SPAWNING_POOL == 200

(* Bounds of the explored part of a run of the search *)

\* entries with a later time than this are not put on the frontier
TimeBound == 20
\* hatcheries built beyond those of the start state
HatchBound == 0
\* zerglings produced beyond those of the start state
ZergBound == 1
\* calls of shortest_path_to_goal in one process
MaxCalls == 2

----------------------------------------------------------------------------
(* Helpers *)

Min(a, b) == IF a <= b THEN a ELSE b

\* Python's int(bool): True is 1, False is 0
BoolToInt(b) == IF b THEN 1 ELSE 0

\* Python's range(n + 1): empty when n < 0
RangeTo(n) == 0 .. n

\* variant: math.floor instead of math.ceil
CeilAsFloor(a, b) == a \div b

\* math.ceil(a / b) for b > 0, also for negative a
Ceil(a, b) == -((-a) \div b)

----------------------------------------------------------------------------
(* class State *)

InitialState ==
    [hatcheries |-> 1, drones |-> 5, zerglings |-> 0, overlords |-> 1,
     has_spawning_pool |-> FALSE]

units(s) == s.drones + s.zerglings

food_cap(s) == FOOD_PER_OVERLORD * s.overlords

minerals_per_second(s) == MINERALS_PER_DRONE * s.drones

max_units_producible(s) == Min(s.hatcheries, food_cap(s) - units(s))

\* variant: no drone is kept back from construction
max_buildings_producible_all(s) == s.drones

max_buildings_producible(s) == s.drones - 1

max_drones_producible(s) ==
    Min(max_units_producible(s), MAX_DRONES - s.drones)

max_overlords_producible(s) ==
    Min(IF max_units_producible(s) = 0 THEN 1 ELSE 0,
        MAX_OVERLORDS - s.overlords)

max_zerglings_producible(s) ==
    IF s.has_spawning_pool THEN max_units_producible(s) ELSE 0

\* variant: the MAX_HATCHERIES cap is left out
max_hatcheries_producible_uncapped(s) == max_buildings_producible(s)

max_hatcheries_producible(s) ==
    Min(max_buildings_producible(s), MAX_HATCHERIES - s.hatcheries)

\* variant: the goal count itself does not count as reached
is_end_state_strict(s) == s.zerglings > GOAL_ZERGLINGS

is_end_state(s) == s.zerglings >= GOAL_ZERGLINGS

----------------------------------------------------------------------------
(* class HatcheryProduction, class DroneProduction *)

hatchery_minerals_needed(hp) ==
    COST_DRONE * hp.drones + COST_OVERLORD * hp.overlords
        + COST_ZERG * hp.zerglings

\* variant: overlords are not counted
hatchery_len_no_overlords(hp) == hp.drones + hp.zerglings

hatchery_len(hp) == hp.drones + hp.overlords + hp.zerglings

drone_minerals_needed(dp, s) ==
    COST_HATCHERY * dp.hatcheries
        + (IF ~s.has_spawning_pool /\ dp.spawning_pool
           THEN COST_SPAWNING_POOL ELSE 0)

\* variant: the spawning pool is not counted
drone_len_hatcheries_only(dp) == dp.hatcheries

drone_len(dp) == dp.hatcheries + BoolToInt(dp.spawning_pool)

----------------------------------------------------------------------------
(* Production generator *)

\* variant: the slot test on drones + zerglings is left out
hatchery_productions_unfiltered(s) ==
    [drones : RangeTo(max_drones_producible(s)),
     overlords : RangeTo(max_overlords_producible(s)),
     zerglings : RangeTo(max_zerglings_producible(s))]

\* len(range(n + 1))
RangeLen(n) == IF n < 0 THEN 0 ELSE n + 1

\* itertools.product of the three ranges, in the order it yields them:
\* drones outermost, zerglings innermost
product3(nd, no, nz) ==
    [i \in 1 .. (nd * no * nz) |->
        [drones |-> (i - 1) \div (no * nz),
         overlords |-> ((i - 1) \div nz) % no,
         zerglings |-> (i - 1) % nz]]

\* variant: overlords are counted against the production slots
hatchery_productions_list_counts_overlords(s) ==
    LET keep(hp) == hp.drones + hp.overlords + hp.zerglings
                        <= max_units_producible(s)
    IN  SelectSeq(product3(RangeLen(max_drones_producible(s)),
                           RangeLen(max_overlords_producible(s)),
                           RangeLen(max_zerglings_producible(s))), keep)

\* the list prods that hatchery_productions builds and returns
hatchery_productions_list(s) ==
    LET keep(hp) == hp.drones + hp.zerglings <= max_units_producible(s)
    IN  SelectSeq(product3(RangeLen(max_drones_producible(s)),
                           RangeLen(max_overlords_producible(s)),
                           RangeLen(max_zerglings_producible(s))), keep)

\* the productions in that list
hatchery_productions(s) ==
    { hatchery_productions_list(s)[i] :
        i \in DOMAIN hatchery_productions_list(s) }

\* variant: the pool is offered whether or not it has been built
drone_productions_pool_always(s) ==
    { dp \in [hatcheries : RangeTo(max_hatcheries_producible(s)),
              spawning_pool : {TRUE, FALSE}] :
        dp.hatcheries + BoolToInt(dp.spawning_pool)
            <= max_buildings_producible(s) }

drone_productions(s) ==
    { dp \in [hatcheries : RangeTo(max_hatcheries_producible(s)),
              spawning_pool : IF s.has_spawning_pool THEN {FALSE}
                              ELSE {TRUE, FALSE}] :
        dp.hatcheries + BoolToInt(dp.spawning_pool)
            <= max_buildings_producible(s) }

\* variant: the test that leaves the do-nothing pair out is missing
productions_unfiltered(drone_prods, hatchery_prods) ==
    [drone_prod : drone_prods, hatchery_prod : hatchery_prods]

productions(drone_prods, hatchery_prods) ==
    { pr \in [drone_prod : drone_prods, hatchery_prod : hatchery_prods] :
        \/ pr.drone_prod.hatcheries
             + BoolToInt(pr.drone_prod.spawning_pool) > 0
        \/ pr.hatchery_prod.drones + pr.hatchery_prod.overlords
             + pr.hatchery_prod.zerglings > 0 }

\* the pairs next_states iterates over
offered(s) == productions(drone_productions(s), hatchery_productions(s))

----------------------------------------------------------------------------
(* Transition function *)

\* variant: the new state does not record that the pool was built
next_state_forgets_pool(state, hatchery_prod, drone_prod, carry) ==
    LET minerals_needed ==
            hatchery_minerals_needed(hatchery_prod)
                + drone_minerals_needed(drone_prod, state)
        newPool == ~state.has_spawning_pool /\ drone_prod.spawning_pool
        new_state ==
            [hatcheries |-> state.hatcheries + drone_prod.hatcheries,
             drones |-> state.drones + hatchery_prod.drones
                          - drone_prod.hatcheries
                          - (IF newPool THEN 1 ELSE 0),
             zerglings |-> state.zerglings + hatchery_prod.zerglings,
             overlords |-> state.overlords + hatchery_prod.overlords,
             has_spawning_pool |-> state.has_spawning_pool]
        true_mineral_needed == minerals_needed - carry
        rounds == Ceil(true_mineral_needed, minerals_per_second(state))
        total_minerals == minerals_per_second(state) * rounds
        wait_time ==
            rounds + (IF hatchery_len(hatchery_prod) > 0 THEN 1 ELSE 0)
        new_carry ==
            (total_minerals - true_mineral_needed)
                + (minerals_per_second(state)
                     - drone_len(drone_prod) * MINERALS_PER_DRONE)
    IN  [wait_time |-> wait_time, new_carry |-> new_carry,
         new_state |-> new_state]

\* variant: the drones that become hatcheries are not taken from the count
next_state_keeps_builders(state, hatchery_prod, drone_prod, carry) ==
    LET minerals_needed ==
            hatchery_minerals_needed(hatchery_prod)
                + drone_minerals_needed(drone_prod, state)
        newPool == ~state.has_spawning_pool /\ drone_prod.spawning_pool
        new_state ==
            [hatcheries |-> state.hatcheries + drone_prod.hatcheries,
             drones |-> state.drones + hatchery_prod.drones
                          - (IF newPool THEN 1 ELSE 0),
             zerglings |-> state.zerglings + hatchery_prod.zerglings,
             overlords |-> state.overlords + hatchery_prod.overlords,
             has_spawning_pool |->
                 state.has_spawning_pool \/ drone_prod.spawning_pool]
        true_mineral_needed == minerals_needed - carry
        rounds == Ceil(true_mineral_needed, minerals_per_second(state))
        total_minerals == minerals_per_second(state) * rounds
        wait_time ==
            rounds + (IF hatchery_len(hatchery_prod) > 0 THEN 1 ELSE 0)
        new_carry ==
            (total_minerals - true_mineral_needed)
                + (minerals_per_second(state)
                     - drone_len(drone_prod) * MINERALS_PER_DRONE)
    IN  [wait_time |-> wait_time, new_carry |-> new_carry,
         new_state |-> new_state]

next_state(state, hatchery_prod, drone_prod, carry) ==
    LET minerals_needed ==
            hatchery_minerals_needed(hatchery_prod)
                + drone_minerals_needed(drone_prod, state)
        newPool == ~state.has_spawning_pool /\ drone_prod.spawning_pool
        new_state ==
            [hatcheries |-> state.hatcheries + drone_prod.hatcheries,
             drones |-> state.drones + hatchery_prod.drones
                          - drone_prod.hatcheries
                          - (IF newPool THEN 1 ELSE 0),
             zerglings |-> state.zerglings + hatchery_prod.zerglings,
             overlords |-> state.overlords + hatchery_prod.overlords,
             has_spawning_pool |->
                 state.has_spawning_pool \/ drone_prod.spawning_pool]
        true_mineral_needed == minerals_needed - carry
        rounds == Ceil(true_mineral_needed, minerals_per_second(state))
        total_minerals == minerals_per_second(state) * rounds
        wait_time ==
            rounds + (IF hatchery_len(hatchery_prod) > 0 THEN 1 ELSE 0)
        new_carry ==
            (total_minerals - true_mineral_needed)
                + (minerals_per_second(state)
                     - drone_len(drone_prod) * MINERALS_PER_DRONE)
    IN  [wait_time |-> wait_time, new_carry |-> new_carry,
         new_state |-> new_state]

next_states(state, carry) ==
    { next_state(state, pr.hatchery_prod, pr.drone_prod, carry) :
        pr \in offered(state) }

----------------------------------------------------------------------------
(* Search engine: shortest_path_to_goal *)

Entry(t, c, s) == [time |-> t, carry |-> c, state |-> s]

\* tuple order of the queue entries on (time, carry)
Before(e, f) ==
    \/ e.time < f.time
    \/ e.time = f.time /\ e.carry < f.carry

\* the entries pq.get() may return: none is Before them.  Entries equal in
\* time and carry are compared through State.__lt__, which is no ordering,
\* so any of them may come out first.
Heads(q) == { e \in BagToSet(q) : \A f \in BagToSet(q) : ~Before(f, e) }

\* State.__eq__: equal in all five attributes (State.__hash__ is a function
\* of the same attributes, so equal States fall into the same bucket)
StateEq(a, b) ==
    /\ a.hatcheries = b.hatcheries
    /\ a.drones = b.drones
    /\ a.overlords = b.overlords
    /\ a.zerglings = b.zerglings
    /\ a.has_spawning_pool = b.has_spawning_pool

\* current_state in cache
InCache(s, c) == \E t \in c : StateEq(t, s)

\* variant: the settled state is not added to the cache
CacheAddForgets(c, s) == c

CacheAdd(c, s) == c \cup {s}

WithinBoundsFrom(e, s0) ==
    /\ e.time <= TimeBound
    /\ e.state.hatcheries - s0.hatcheries <= HatchBound
    /\ e.state.zerglings - s0.zerglings <= ZergBound

WithinBounds(e) == WithinBoundsFrom(e, start)

\* the entries the for-loop of an expansion puts on the queue
Successors(e) ==
    { Entry(e.time + n.wait_time, n.new_carry, n.new_state) :
        n \in next_states(e.state, e.carry) }

ProgressLine(e) == [kind |-> "progress", time |-> e.time, state |-> e.state]

ResultLine(e) ==
    [kind |-> "result", time |-> e.time, carry |-> e.carry,
     state |-> e.state]

\* a State of the graph that is one zergling short of the goal
NearGoalState ==
    [hatcheries |-> 4, drones |-> 40, zerglings |-> 149, overlords |-> 24,
     has_spawning_pool |-> TRUE]

\* a State of the graph that satisfies the goal predicate
GoalState ==
    [hatcheries |-> 4, drones |-> 40, zerglings |-> 150, overlords |-> 24,
     has_spawning_pool |-> TRUE]

Starts == {InitialState, NearGoalState, GoalState}

NoLedger == [charges |-> 0, drones |-> 0]

Init ==
    /\ start \in Starts
    /\ pq = SetToBag({Entry(0, 0, start)})
    /\ cache = {}
    /\ pc = "loop"
    /\ output = EmptyBag
    /\ pushed = {Entry(0, 0, start)}
    /\ discarded = {}
    /\ cur = InitialState
    /\ call = 1
    /\ prevOutput = EmptyBag
    /\ pruned = FALSE
    /\ poolLedger = NoLedger

\* pq.get() returns an entry whose state is in the cache: continue
Discard ==
    /\ pc = "loop"
    /\ \E e \in Heads(pq) :
        /\ InCache(e.state, cache)
        /\ pq' = pq (-) SetToBag({e})
        /\ discarded' = discarded \cup {e}
    /\ UNCHANGED <<start, cache, pc, output, pushed, cur,
                   call, prevOutput, pruned, poolLedger>>

\* the popped state is new and is an end state: report and break
Found ==
    /\ pc = "loop"
    /\ \E e \in Heads(pq) :
        /\ ~InCache(e.state, cache)
        /\ is_end_state(e.state)
        /\ pq' = pq (-) SetToBag({e})
        /\ cache' = CacheAdd(cache, e.state)
        /\ output' = output (+) SetToBag({ProgressLine(e), ResultLine(e)})
    /\ pc' = "done"
    /\ UNCHANGED <<start, pushed, discarded, cur,
                   call, prevOutput, pruned, poolLedger>>

\* the popped state is new and no end state: put its successors
Expand ==
    /\ pc = "loop"
    /\ \E e \in Heads(pq) :
        /\ ~InCache(e.state, cache)
        /\ ~is_end_state(e.state)
        /\ LET succ == { n \in Successors(e) : WithinBounds(n) }
           IN  /\ pq' = (pq (-) SetToBag({e})) (+) SetToBag(succ)
               /\ pushed' = pushed \cup succ
               /\ pruned' = (pruned \/ succ # Successors(e))
        /\ cache' = CacheAdd(cache, e.state)
        /\ output' = output (+) SetToBag({ProgressLine(e)})
    /\ UNCHANGED <<start, pc, discarded, cur, call, prevOutput, poolLedger>>

\* pq.empty(): the while-loop ends without a result
Exhausted ==
    /\ pc = "loop"
    /\ pq = EmptyBag
    /\ pc' = "done"
    /\ UNCHANGED <<start, pq, cache, output, pushed, discarded, cur,
                   call, prevOutput, pruned, poolLedger>>

\* shortest_path_to_goal is called again with the same start: the queue is
\* a new one, the module-level cache is the one the earlier call filled
CallAgain ==
    /\ pc = "done"
    /\ call < MaxCalls
    /\ call' = call + 1
    /\ pq' = SetToBag({Entry(0, 0, start)})
    /\ pc' = "loop"
    /\ prevOutput' = output
    /\ output' = EmptyBag
    /\ pushed' = {Entry(0, 0, start)}
    /\ discarded' = {}
    /\ UNCHANGED <<start, cache, cur, pruned, poolLedger>>

Next == Discard \/ Found \/ Expand \/ Exhausted \/ CallAgain

Spec == Init /\ [][Next]_vars

----------------------------------------------------------------------------
(* The state graph: any sequence of offered production pairs *)

GraphInit ==
    /\ start = InitialState
    /\ pq = EmptyBag
    /\ cache = {}
    /\ pc = "graph"
    /\ output = EmptyBag
    /\ pushed = {}
    /\ discarded = {}
    /\ cur = InitialState
    /\ call = 1
    /\ prevOutput = EmptyBag
    /\ pruned = FALSE
    /\ poolLedger = NoLedger

\* what a production pair spends on the pool in state s: the minerals
\* charged for it and the drones taken for it
PoolSpent(s, pr) ==
    LET without == [pr.drone_prod EXCEPT !.spawning_pool = FALSE]
    IN  [charges |->
            IF drone_minerals_needed(pr.drone_prod, s)
                 > drone_minerals_needed(without, s) THEN 1 ELSE 0,
         drones |->
            next_state(s, pr.hatchery_prod, without, 0).new_state.drones
              - next_state(s, pr.hatchery_prod, pr.drone_prod, 0)
                    .new_state.drones]

Produce ==
    /\ pc = "graph"
    /\ \E pr \in offered(cur) :
        /\ cur' = next_state(cur, pr.hatchery_prod, pr.drone_prod, 0).new_state
        /\ poolLedger' =
              [charges |-> poolLedger.charges + PoolSpent(cur, pr).charges,
               drones |-> poolLedger.drones + PoolSpent(cur, pr).drones]
    /\ UNCHANGED <<start, pq, cache, pc, output, pushed, discarded,
                   call, prevOutput, pruned>>

GraphNext == Produce

GraphSpec == GraphInit /\ [][GraphNext]_vars

----------------------------------------------------------------------------
(* Properties of the search *)

\* the entries whose pop leads to an expansion: next_state is called on them
Expandable ==
    IF pc = "loop"
    THEN { e \in Heads(pq) : ~InCache(e.state, cache) /\ ~is_end_state(e.state) }
    ELSE {}

\* the progress lines printed so far: one per settlement
Settlements == { l \in BagToSet(output) : l.kind = "progress" }

\* C1: every edge weight is non-negative: for every entry the search pops
\* and expands in a run from State() with carry 0, every offered production
\* pair has a wait_time >= 0.
C1_EdgeWeightsNonNegative ==
    start = InitialState =>
        \A e \in Expandable :
            \A n \in next_states(e.state, e.carry) : n.wait_time >= 0

\* every (time, carry, State) some sequence of offered productions reaches
\* from (0, 0, s0), each step within the bounds of the explored graph
RECURSIVE SequenceClosure(_, _, _)
SequenceClosure(frontier, seen, s0) ==
    LET new == { n \in UNION { Successors(e) : e \in frontier } :
                    WithinBoundsFrom(n, s0) } \ seen
    IN  IF new = {} THEN seen ELSE SequenceClosure(new, seen \cup new, s0)

AllSequenceEntries(s0) ==
    SequenceClosure({Entry(0, 0, s0)}, {Entry(0, 0, s0)}, s0)

\* C2: the time recorded when a State is settled is the minimum elapsed
\* time over all sequences of legal production choices that lead from
\* State() with carry 0 to that State: no sequence reaches it earlier.
C2_SettledTimeIsOptimal ==
    start = InitialState =>
        LET reached == AllSequenceEntries(start)
        IN  \A l \in Settlements :
                \A p \in reached :
                    p.state = l.state => l.time <= p.time

\* C3: each distinct State is settled at most once in a run: no two
\* progress lines report the same State, and an entry popped for a State
\* that was settled before is discarded without being expanded.
C3_SettledAtMostOnce ==
    /\ \A l \in Settlements : CopiesIn(l, output) = 1
    /\ \A l, m \in Settlements : l.state = m.state => l = m
    /\ \A d \in discarded :
           \/ \E l \in Settlements : l.state = d.state
           \/ call > 1 /\ d.state \in cache

\* C3 witness: entries for already settled States were popped and skipped
C3_Witness ==
    /\ start = InitialState
    /\ Cardinality(discarded) >= 3
    /\ Cardinality(Settlements) >= 3

\* C4: the time recorded when a State is settled is less than or equal to
\* the time of every frontier entry for that State that is ever pushed,
\* before or after the settlement.
C4_SettledTimeIsMinimumPushed ==
    \A l \in Settlements :
        \A p \in pushed :
            p.state = l.state => l.time <= p.time

----------------------------------------------------------------------------
(* Properties of the state graph (GraphSpec) *)

\* C5: every State reachable through offered production pairs has all
\* counts non-negative and within the global caps.
C5_CountsWithinCaps ==
    /\ cur.drones >= 0
    /\ cur.zerglings >= 0
    /\ cur.overlords >= 1
    /\ cur.hatcheries >= 1
    /\ cur.drones <= MAX_DRONES
    /\ cur.overlords <= MAX_OVERLORDS
    /\ cur.hatcheries <= MAX_HATCHERIES

\* C5 witness: a produced State that sits on all three caps at once
C5_Witness ==
    /\ pc = "graph"
    /\ cur.drones = MAX_DRONES
    /\ cur.overlords = MAX_OVERLORDS
    /\ cur.hatcheries = MAX_HATCHERIES

\* C6: in every reachable State the number of free production slots is
\* between 0 and the number of hatcheries, and the population never exceeds
\* the food cap.
C6_SlotsWithinHatcheries ==
    /\ 0 <= max_units_producible(cur)
    /\ max_units_producible(cur) <= cur.hatcheries
    /\ cur.drones + cur.zerglings <= 8 * cur.overlords

\* C6 witness: the population has been produced up to the last food cap
C6_Witness ==
    /\ pc = "graph"
    /\ cur.overlords = MAX_OVERLORDS
    /\ cur.drones + cur.zerglings = 8 * cur.overlords
    /\ cur.zerglings > 0
    /\ cur.hatcheries > 1

\* C7: in every reachable State at least one drone is left, so the income
\* rate that next_state divides by is positive.
C7_IncomeNeverZero ==
    /\ cur.drones >= 1
    /\ minerals_per_second(cur) > 0

\* C7 witness: three hatcheries and the pool were built in one round from
\* State(), which leaves a single drone
C7_Witness ==
    /\ pc = "graph"
    /\ cur = [hatcheries |-> 4, drones |-> 1, zerglings |-> 0,
              overlords |-> 1, has_spawning_pool |-> TRUE]

----------------------------------------------------------------------------
(* Properties of the transition function, on the entries the search expands *)

\* the cost of a production pair as the cost table states it
PairCost(s, pr) ==
    50 * pr.hatchery_prod.drones
        + 100 * pr.hatchery_prod.overlords
        + 50 * pr.hatchery_prod.zerglings
        + 450 * pr.drone_prod.hatcheries
        + (IF pr.drone_prod.spawning_pool /\ ~s.has_spawning_pool
           THEN 200 ELSE 0)

\* k is the ceiling of n / rate: the least integer with k * rate >= n
IsCeiling(k, n, rate) == k * rate >= n /\ (k - 1) * rate < n

CeilingOf(n, rate) ==
    CHOOSE k \in ((n \div rate) - 1) .. ((n \div rate) + 1) :
        IsCeiling(k, n, rate)

\* the result of next_state for an expanded entry and an offered pair
Result(e, pr) == next_state(e.state, pr.hatchery_prod, pr.drone_prod, e.carry)

C9_CarryNeverNegative ==
    /\ \A e \in pushed : e.carry >= 0
    /\ \A e \in BagToSet(pq) : e.carry >= 0
    /\ \A e \in discarded : e.carry >= 0
    /\ \A e \in Expandable : \A n \in Successors(e) : n.carry >= 0

\* C9 witness: successors of a round that consumed a drone for the pool
\* are on the frontier
C9_Witness ==
    \E e \in BagToSet(pq) :
        /\ e.time > 0
        /\ e.state.has_spawning_pool
        /\ e.state.drones < start.drones

\* C10: the time of one transition is ceil((cost - carry) / income rate of
\* the state before it), plus one time unit exactly when the hatchery
\* production holds at least one drone, overlord or zergling.
C10_WaitTimeIsCeilingPlusDelay ==
    \A e \in Expandable : \A pr \in offered(e.state) :
        LET rate == 8 * e.state.drones
            net == PairCost(e.state, pr) - e.carry
            slotUsed == \/ pr.hatchery_prod.drones >= 1
                        \/ pr.hatchery_prod.overlords >= 1
                        \/ pr.hatchery_prod.zerglings >= 1
        IN  Result(e, pr).wait_time
                = CeilingOf(net, rate) + (IF slotUsed THEN 1 ELSE 0)

\* C10 witness: an entry about to be expanded is offered a buildings-only
\* pair and an overlord-only pair
C10_Witness ==
    \E e \in Expandable :
        /\ \E pr \in offered(e.state) :
              /\ hatchery_len(pr.hatchery_prod) = 0
              /\ drone_len(pr.drone_prod) > 0
        /\ \E pr \in offered(e.state) :
              /\ pr.hatchery_prod.overlords = 1
              /\ pr.hatchery_prod.drones + pr.hatchery_prod.zerglings = 0

----------------------------------------------------------------------------
(* Properties of the production generator and the transition function on
   every State of the graph (GraphSpec) *)

DoNothingPair ==
    [drone_prod |-> [hatcheries |-> 0, spawning_pool |-> FALSE],
     hatchery_prod |-> [drones |-> 0, overlords |-> 0, zerglings |-> 0]]

\* C12: the all-zero production pair is never offered, and no transition
\* generated by next_states maps a State to a State equal to itself.
C12_NoSelfLoop ==
    /\ DoNothingPair \notin offered(cur)
    /\ \A n \in next_states(cur, 0) : n.new_state # cur

\* C12 witness: a produced State in which doing nothing is among the
\* choices of both generators, and other pairs are offered
C12_Witness ==
    /\ pc = "graph"
    /\ cur # InitialState
    /\ DoNothingPair.drone_prod \in drone_productions(cur)
    /\ DoNothingPair.hatchery_prod \in hatchery_productions(cur)
    /\ Cardinality(offered(cur)) >= 2

\* C13: the spawning pool is paid for at most once: once has_spawning_pool
\* is true no choice with spawning_pool = TRUE is offered, and along any
\* sequence of transitions from State() the pool cost is charged at most
\* once and at most one drone is consumed for the pool.
C13_PoolPaidAtMostOnce ==
    /\ cur.has_spawning_pool =>
          \A dp \in drone_productions(cur) : ~dp.spawning_pool
    /\ poolLedger.charges <= 1
    /\ poolLedger.drones <= 1

\* C13 witness: the pool was paid for with 200 minerals and one drone, and
\* the sequence went on to build a hatchery and produce zerglings
C13_Witness ==
    /\ pc = "graph"
    /\ cur.has_spawning_pool
    /\ poolLedger = [charges |-> 1, drones |-> 1]
    /\ cur.hatcheries > 1
    /\ cur.zerglings > 0

\* the triples C14 describes for a State
SlotTriples(s) ==
    { t \in [drones : 0 .. max_drones_producible(s),
             overlords : 0 .. max_overlords_producible(s),
             zerglings : 0 .. max_zerglings_producible(s)] :
        t.drones + t.zerglings <= max_units_producible(s) }

\* C14: for every reachable State hatchery_productions returns, without
\* duplicates and without omissions, exactly the triples (w, s, m) within
\* the three producible maxima with w + m <= max_units_producible; the
\* overlord count is not counted against the slot limit.
C14_SlotOutputsExact ==
    LET prods == hatchery_productions_list(cur)
    IN  /\ \A i, j \in DOMAIN prods : prods[i] = prods[j] => i = j
        /\ { prods[i] : i \in DOMAIN prods } = SlotTriples(cur)
        /\ Len(prods) = Cardinality(SlotTriples(cur))

\* C14 witness: a State with the pool and two free slots, where the slot
\* test removes triples from the product of the ranges
C14_Witness ==
    /\ pc = "graph"
    /\ cur.has_spawning_pool
    /\ max_units_producible(cur) >= 2
    /\ Len(hatchery_productions_list(cur))
         < (max_drones_producible(cur) + 1)
             * (max_overlords_producible(cur) + 1)
             * (max_zerglings_producible(cur) + 1)

\* the measure C19 names
Measure(s) ==
    s.drones + s.zerglings + s.overlords + 2 * s.hatcheries
        + 2 * (IF s.has_spawning_pool THEN 1 ELSE 0)

\* C19: every transition produced by next_states strictly increases the
\* measure drones + zerglings + overlords + 2*hatcheries + 2*(pool), so no
\* State is reachable from itself and the reachable States are finitely
\* many under the caps.
C19_MeasureIncreases ==
    /\ \A n \in next_states(cur, 0) : Measure(n.new_state) > Measure(cur)
    /\ Measure(cur) <= MAX_DRONES + 8 * MAX_OVERLORDS + MAX_OVERLORDS
                         + 2 * MAX_HATCHERIES + 2

\* C19 witness: a sequence has come to a State with the pool and all
\* hatcheries from which nothing more is offered
C19_Witness ==
    /\ pc = "graph"
    /\ cur.has_spawning_pool
    /\ cur.hatcheries = MAX_HATCHERIES
    /\ offered(cur) = {}

----------------------------------------------------------------------------
(* Properties of the outcome of a call of the search *)

\* C16: if the starting State already satisfies the goal predicate, the
\* search reports success at the very first pop with elapsed time 0,
\* reports the starting State itself, and pushes no successor.
C16_GoalAtStart ==
    (start.zerglings >= 150 /\ call = 1) =>
        /\ pushed = {[time |-> 0, carry |-> 0, state |-> start]}
        /\ pc = "loop" =>
              /\ output = EmptyBag
              /\ cache = {}
        /\ pc = "done" =>
              /\ output = SetToBag(
                    {[kind |-> "progress", time |-> 0, state |-> start],
                     [kind |-> "result", time |-> 0, carry |-> 0,
                      state |-> start]})
              /\ pq = EmptyBag

\* C16 witness: the first call with a start State of 150 zerglings is over
C16_Witness ==
    /\ start.zerglings >= 150
    /\ call = 1
    /\ pc = "done"

\* the lines that tell how a call ended
OutcomeLines == { l \in BagToSet(output) : l.kind \in {"result", "failure"} }

\* C17: when the frontier becomes empty without a popped State satisfying
\* the goal predicate, the search reports an Exhausted outcome: a call never
\* ends without reporting either a goal result or a failure.
C17_OutcomeReported ==
    (pc = "done" /\ ~pruned) => OutcomeLines # {}

\* C18: the cache is reinitialized per search: a second call with the same
\* starting State settles the same States and reports the same goal time
\* and State as the first.
C18_SecondCallRepeatsFirst ==
    (call = 2 /\ pc = "done" /\ ~pruned) => output = prevOutput

\* C20: the times of successively popped entries are non-decreasing: no
\* entry pushed after a pop at time t has a time smaller than t.
C20_PopTimesNonDecreasing ==
    start = InitialState =>
        \A e \in BagToSet(pq) :
            /\ \A l \in Settlements : l.time <= e.time
            /\ \A d \in discarded : d.time <= e.time

====
